---- MODULE Spec2Model ----
(***************************************************************************)
(* Model of keepachangelog_validator.py: the structural scanner            *)
(* (verify_changelog_format), the release extractor (parse_changelog),     *)
(* the semantic validator (KACLValidator.verify_version) and the main      *)
(* pipeline that runs them on the text of a changelog file.                *)
(*                                                                         *)
(* Text is a sequence of one-character strings, so that the regular        *)
(* expressions of the source are matched character by character.           *)
(* The diagnostic prints inside the scanner and the extractor are not      *)
(* modelled; the prints of main are (variable out).                        *)
(***************************************************************************)
EXTENDS Integers, Sequences, FiniteSets

VARIABLES pc, changelog_file, allowed_sections, changelog_content,
          scan_result, changelog, idx, version_obj, errors, out, exit_status

vars == <<pc, changelog_file, allowed_sections, changelog_content,
          scan_result, changelog, idx, version_obj, errors, out, exit_status>>

----------------------------------------------------------------------------
(* Bounds *)

\* longest run of body lines below the title / Unreleased preamble
MaxBody == 3
\* most sections of a release handed directly to verify_version
MaxSections == 2
\* most directory entries visited by the walk of find_changelog_file
MaxFiles == 2

----------------------------------------------------------------------------
(* Characters and literals *)

NL == "\n"
Digits == {"0", "1", "2", "3", "4", "5", "6", "7", "8", "9"}
NonZeroDigits == Digits \ {"0"}
IsDigit(c) == c \in Digits
DigitVal(c) ==
  CASE c = "0" -> 0 [] c = "1" -> 1 [] c = "2" -> 2 [] c = "3" -> 3
    [] c = "4" -> 4 [] c = "5" -> 5 [] c = "6" -> 6 [] c = "7" -> 7
    [] c = "8" -> 8 [] c = "9" -> 9

\* code points of the characters a captured (\d+\.\d+\.\d+) can hold
CodePoint(c) == IF c = "." THEN 46 ELSE 48 + DigitVal(c)

\* str.strip() / .strip() whitespace that occurs in the modelled alphabet
IsSpace(c) == c \in {" ", NL}

sTitle == <<"#", " ", "C", "h", "a", "n", "g", "e", "l", "o", "g">>
sUnrelTag == <<"[", "U", "n", "r", "e", "l", "e", "a", "s", "e", "d", "]">>
sUnreleased == <<"#", "#", " ">> \o sUnrelTag
sUnreleasedWord == <<"U", "n", "r", "e", "l", "e", "a", "s", "e", "d">>
sH2 == <<"#", "#">>
sH3 == <<"#", "#", "#">>
sH3Space == <<"#", "#", "#", " ">>
sNLH3 == <<NL, "#", "#", "#">>
sHeadOpen == <<"#", "#", " ", "[">>
sHeadMid == <<"]", " ", "-", " ">>
sBullet == <<NL, "-", " ">>

sAdded == <<"A", "d", "d", "e", "d">>
sChanged == <<"C", "h", "a", "n", "g", "e", "d">>
sFixed == <<"F", "i", "x", "e", "d">>
sDeprecated == <<"D", "e", "p", "r", "e", "c", "a", "t", "e", "d">>
sRemoved == <<"R", "e", "m", "o", "v", "e", "d">>
sSecurity == <<"S", "e", "c", "u", "r", "i", "t", "y">>

AllowedSections == <<sAdded, sChanged, sFixed, sDeprecated, sRemoved>>

----------------------------------------------------------------------------
(* String primitives *)

Range(s) == {s[i] : i \in 1..Len(s)}

\* lit occurs in s starting at index i
StartsWithAt(s, i, lit) ==
  /\ i >= 1
  /\ i + Len(lit) - 1 <= Len(s)
  /\ \A k \in 1..Len(lit) : s[i + k - 1] = lit[k]

\* str.startswith
StartsWith(s, lit) == StartsWithAt(s, 1, lit)

\* `lit in s`, and re.search of a pattern that is a literal
Contains(s, lit) == \E i \in 1..(Len(s) - Len(lit) + 1) : StartsWithAt(s, i, lit)

\* first index >= i of s that holds c, or 0
IndexFrom(s, i, c) ==
  IF \E j \in i..Len(s) : s[j] = c
  THEN CHOOSE j \in i..Len(s) : s[j] = c /\ \A k \in i..(j - 1) : s[k] # c
  ELSE 0

\* first index >= i of s where lit starts, or 0
FindFrom(s, i, lit) ==
  IF \E j \in i..Len(s) : StartsWithAt(s, j, lit)
  THEN CHOOSE j \in i..Len(s) :
         StartsWithAt(s, j, lit) /\ \A k \in i..(j - 1) : ~StartsWithAt(s, k, lit)
  ELSE 0

\* str.split(sep): the pieces between non-overlapping occurrences of sep
RECURSIVE SplitFrom(_, _, _)
SplitFrom(s, i, sep) ==
  LET j == FindFrom(s, i, sep)
  IN  IF j = 0 THEN <<SubSeq(s, i, Len(s))>>
      ELSE <<SubSeq(s, i, j - 1)>> \o SplitFrom(s, j + Len(sep), sep)

Split(s, sep) == SplitFrom(s, 1, sep)

\* str.strip()
Strip(s) ==
  IF \A i \in 1..Len(s) : IsSpace(s[i]) THEN <<>>
  ELSE LET a == CHOOSE i \in 1..Len(s) :
                  ~IsSpace(s[i]) /\ \A k \in 1..(i - 1) : IsSpace(s[k])
           b == CHOOSE i \in 1..Len(s) :
                  ~IsSpace(s[i]) /\ \A k \in (i + 1)..Len(s) : IsSpace(s[k])
       IN  SubSeq(s, a, b)

\* "\n".join(lines)
RECURSIVE Join(_)
Join(lines) ==
  IF lines = <<>> THEN <<>>
  ELSE IF Len(lines) = 1 THEN lines[1]
  ELSE lines[1] \o <<NL>> \o Join(Tail(lines))

\* Python's < on str, for strings of digits and dots
StrLess(a, b) ==
  \E k \in 1..(Len(b)) :
     /\ k <= Len(a) + 1
     /\ \A j \in 1..(k - 1) : a[j] = b[j]
     /\ \/ k = Len(a) + 1
        \/ k <= Len(a) /\ CodePoint(a[k]) < CodePoint(b[k])

\* end of the greedy run \d* that starts at i: first index that is no digit
DigitRunEnd(s, i) ==
  IF \E j \in i..Len(s) : ~IsDigit(s[j])
  THEN CHOOSE j \in i..Len(s) : ~IsDigit(s[j]) /\ \A k \in i..(j - 1) : IsDigit(s[k])
  ELSE Len(s) + 1

\* \d{4}-\d{2}-\d{2} matches s at index i
DateShapeAt(s, i) ==
  /\ i >= 1
  /\ i + 9 <= Len(s)
  /\ \A k \in {0, 1, 2, 3, 5, 6, 8, 9} : IsDigit(s[i + k])
  /\ s[i + 4] = "-"
  /\ s[i + 7] = "-"

----------------------------------------------------------------------------
(* Structural scanner: verify_changelog_format *)

NoMatch == [end |-> 0, version |-> <<>>, date |-> <<>>]

\* r"## \[(\d+\.\d+\.\d+)\] - (\d{4}-\d{2}-\d{2})" tried at index i of s.
\* Each greedy \d+ is followed by a literal that is no digit, so the run
\* must end exactly at that literal; end is the index after the match.
MatchDatedAt(s, i) ==
  IF ~StartsWithAt(s, i, sHeadOpen) THEN NoMatch
  ELSE LET a  == i + 4
           e1 == DigitRunEnd(s, a)
           e2 == DigitRunEnd(s, e1 + 1)
           e3 == DigitRunEnd(s, e2 + 1)
       IN  IF /\ e1 > a /\ e1 <= Len(s) /\ s[e1] = "."
              /\ e2 > e1 + 1 /\ e2 <= Len(s) /\ s[e2] = "."
              /\ e3 > e2 + 1
              /\ StartsWithAt(s, e3, sHeadMid)
              /\ DateShapeAt(s, e3 + 4)
           THEN [end |-> e3 + 14,
                 version |-> SubSeq(s, a, e3 - 1),
                 date |-> SubSeq(s, e3 + 4, e3 + 13)]
           ELSE NoMatch

\* re.findall of the dated-heading pattern: leftmost, non-overlapping
RECURSIVE FindDated(_, _)
FindDated(s, i) ==
  IF i > Len(s) THEN <<>>
  ELSE LET m == MatchDatedAt(s, i)
       IN  IF m.end = 0 THEN FindDated(s, i + 1)
           ELSE <<[version |-> m.version, date |-> m.date]>> \o FindDated(s, m.end)

\* re.match(r'## \[(\d+\.\d+\.\d+)\] - (\d{4}-\d{2}-\d{2})$', line.strip())
HeadingLineMatches(line) ==
  LET t == Strip(line)
  IN  MatchDatedAt(t, 1).end = Len(t) + 1

\* the line is subject to the heading check, and fails it
BadHeadingLine(line) ==
  /\ StartsWith(line, sH2)
  /\ ~Contains(line, sUnrelTag)
  /\ ~Contains(line, sH3)
  /\ ~HeadingLineMatches(line)

IsLeap(y) == (y % 4 = 0 /\ y % 100 # 0) \/ y % 400 = 0

DaysInMonth(y, m) ==
  IF m = 2 THEN (IF IsLeap(y) THEN 29 ELSE 28)
  ELSE IF m \in {4, 6, 9, 11} THEN 30 ELSE 31

\* datetime.datetime.strptime(d, "%Y-%m-%d") for d of shape dddd-dd-dd:
\* ok is FALSE where strptime raises ValueError
strptime(d) ==
  LET y  == 1000 * DigitVal(d[1]) + 100 * DigitVal(d[2])
              + 10 * DigitVal(d[3]) + DigitVal(d[4])
      m  == 10 * DigitVal(d[6]) + DigitVal(d[7])
      dd == 10 * DigitVal(d[9]) + DigitVal(d[10])
  IN  [ok |-> y >= 1 /\ m >= 1 /\ m <= 12 /\ dd >= 1 /\ dd <= DaysInMonth(y, m),
       y |-> y, m |-> m, d |-> dd]

\* a > b on datetime values
DateLater(a, b) ==
  \/ a.y > b.y
  \/ a.y = b.y /\ a.m > b.m
  \/ a.y = b.y /\ a.m = b.m /\ a.d > b.d

\* version_current >= version_previous
VersionNotDescending(version_current, version_previous) ==
  ~StrLess(version_current, version_previous)

\* variant: the comparison of the two dates the other way round
DateNotChronologicalSwapped(date_current, date_previous) ==
  DateLater(date_previous, date_current)

\* date_current > date_previous
DateNotChronological(date_current, date_previous) ==
  DateLater(date_current, date_previous)

\* variant: a single dated release is enough
TooFewReleasesOne(matches) == Len(matches) < 1

\* len(matches) < 2
TooFewReleases(matches) == Len(matches) < 2

\* the loop over adjacent pairs, from pair i on (i is the 1-based index of
\* the current match)
RECURSIVE OrderLoop(_, _)
OrderLoop(matches, i) ==
  IF i > Len(matches) THEN "True"
  ELSE LET date_current  == strptime(matches[i].date)
           date_previous == strptime(matches[i - 1].date)
       IN  IF ~date_current.ok \/ ~date_previous.ok THEN "ValueError"
           ELSE IF VersionNotDescending(matches[i].version, matches[i - 1].version)
                THEN "False"
           ELSE IF DateNotChronological(date_current, date_previous) THEN "False"
           ELSE OrderLoop(matches, i + 1)

\* "True" / "False" are the returned values, "ValueError" the exception
\* strptime raises out of the function
verify_changelog_format(content) ==
  IF ~Contains(content, sTitle) THEN "False"
  ELSE IF ~Contains(content, sUnreleased) THEN "False"
  ELSE IF \E l \in Range(Split(content, <<NL>>)) : BadHeadingLine(l) THEN "False"
  ELSE LET matches == FindDated(content, 1)
       IN  IF TooFewReleases(matches) THEN "False"
           ELSE OrderLoop(matches, 2)

----------------------------------------------------------------------------
(* Release extractor: parse_changelog *)

\* r'## \[(.*?)\] - (\d{4}-\d{2}-\d{2})' tried at index i of s: the lazy
\* (.*?) stops at the first "] - dddd-dd-dd" and does not cross a newline
MatchReleaseAt(s, i) ==
  LET a == i + 4
      Stop(j) == /\ StartsWithAt(s, j, sHeadMid)
                 /\ DateShapeAt(s, j + 4)
                 /\ \A k \in a..(j - 1) : s[k] # NL
  IN  IF StartsWithAt(s, i, sHeadOpen) /\ \E j \in a..Len(s) : Stop(j)
      THEN LET j == CHOOSE j \in a..Len(s) :
                      Stop(j) /\ \A k \in a..(j - 1) : ~Stop(k)
           IN  [end |-> j + 14,
                version |-> SubSeq(s, a, j - 1),
                date |-> SubSeq(s, j + 4, j + 13)]
      ELSE NoMatch

\* re.findall of the release pattern
RECURSIVE FindReleases(_, _)
FindReleases(s, i) ==
  IF i > Len(s) THEN <<>>
  ELSE LET m == MatchReleaseAt(s, i)
       IN  IF m.end = 0 THEN FindReleases(s, i + 1)
           ELSE <<[version |-> m.version, date |-> m.date]>> \o FindReleases(s, m.end)

\* re.findall(r'### (.*?)\n(.*?)(?=\n###|\Z)', s, re.DOTALL) from index i:
\* the title runs to the first newline, the body to the first "\n###" or,
\* when there is none, to the end of the text
RECURSIVE FindSections(_, _)
FindSections(s, i) ==
  LET j == FindFrom(s, i, sH3Space)
  IN  IF j = 0 THEN <<>>
      ELSE LET n == IndexFrom(s, j + 4, NL)
           IN  IF n = 0 THEN <<>>
               ELSE LET f == FindFrom(s, n + 1, sNLH3)
                        e == IF f = 0 THEN Len(s) + 1 ELSE f
                    IN  <<[title |-> SubSeq(s, j + 4, n - 1),
                           changes |-> SubSeq(s, n + 1, e - 1)]>>
                        \o FindSections(s, e)

\* title.strip() in allowed_sections
LabelAllowed(title, allowed) == Strip(title) \in Range(allowed)

\* the value of parsed_sections when the inner loop runs to its end
ParsedSections(sections) ==
  [k \in 1..Len(sections) |->
     [section |-> Strip(sections[k].title),
      changes |-> Split(Strip(sections[k].changes), sBullet)]]

\* every release gets the sections of the whole text; the first title
\* outside allowed_sections makes the function return [] at once
parse_changelog(content, allowed) ==
  LET versions == FindReleases(content, 1)
      sections == FindSections(content, 1)
  IN  IF versions = <<>> THEN <<>>
      ELSE IF \E k \in 1..Len(sections) : ~LabelAllowed(sections[k].title, allowed)
           THEN <<>>
      ELSE [n \in 1..Len(versions) |->
              [version |-> versions[n].version,
               date |-> versions[n].date,
               sections |-> ParsedSections(sections)]]

----------------------------------------------------------------------------
(* Semantic validator: KACLValidator *)

\* (0|[1-9]\d*)\. tried at index i: index after the dot, or 0
NumericDotEnd(s, i) ==
  IF i > Len(s) THEN 0
  ELSE IF s[i] = "0" THEN (IF StartsWithAt(s, i + 1, <<".">>) THEN i + 2 ELSE 0)
  ELSE IF s[i] \in NonZeroDigits
       THEN LET e == DigitRunEnd(s, i + 1)
            IN  IF StartsWithAt(s, e, <<".">>) THEN e + 1 ELSE 0
  ELSE 0

\* re.match(semver_regex, version): the three numeric identifiers must match
\* at the start; the pre-release and build groups are optional and nothing
\* anchors the end, so they never decide whether there is a match
verify_semver(version) ==
  LET a == NumericDotEnd(version, 1)
      b == IF a = 0 THEN 0 ELSE NumericDotEnd(version, a)
  IN  a # 0 /\ b # 0 /\ b <= Len(version) /\ IsDigit(version[b])

\* not empty, and re.match(r"\d{4}-\d{2}-\d{2}", date)
verify_date(date) ==
  IF date = <<>> THEN FALSE
  ELSE DateShapeAt(date, 1)

\* the loop returns False at the first section outside allowed_sections
RECURSIVE verify_sections(_, _)
verify_sections(sections, allowed) ==
  IF sections = <<>> THEN TRUE
  ELSE IF Head(sections).section \notin Range(allowed) THEN FALSE
  ELSE verify_sections(Tail(sections), allowed)

\* Version.has_link_reference
has_link_reference(version) == TRUE

\* KACLValidator.verify_links
verify_links(link_reference) == TRUE

Message(kind, version, allowed) ==
  [kind |-> kind, version |-> version.version,
   valid |-> IF kind = "section" THEN allowed ELSE <<>>]

\* variant: return at the first failed check
verify_version_first(version, allowed) ==
  IF ~verify_semver(version.version) THEN <<Message("semver", version, allowed)>>
  ELSE IF ~verify_date(version.date) THEN <<Message("date", version, allowed)>>
  ELSE IF ~verify_sections(version.sections, allowed)
       THEN <<Message("section", version, allowed)>>
  ELSE <<>>

verify_version(version, allowed) ==
  LET e1 == IF ~verify_semver(version.version)
            THEN <<Message("semver", version, allowed)>> ELSE <<>>
      e2 == IF ~verify_date(version.date)
            THEN e1 \o <<Message("date", version, allowed)>> ELSE e1
      e3 == IF ~verify_sections(version.sections, allowed)
            THEN e2 \o <<Message("section", version, allowed)>> ELSE e2
      e4 == IF ~verify_links(has_link_reference(version))
            THEN e3 \o <<Message("link", version, allowed)>> ELSE e3
  IN  e4

----------------------------------------------------------------------------
(* Inputs: file names, changelog texts, releases *)

None == "None"

FileNames == {"CHANGELOG.md", "README.md"}

\* the file names in the order os.walk yields them
FileWalks == UNION {[1..n -> FileNames] : n \in 0..MaxFiles}

\* str.lower on the file names above
Lower(name) == IF name = "CHANGELOG.md" THEN "changelog.md" ELSE name

RECURSIVE find_changelog_file(_)
find_changelog_file(walk) ==
  IF walk = <<>> THEN None
  ELSE IF Lower(Head(walk)) = "changelog.md" THEN Head(walk)
  ELSE find_changelog_file(Tail(walk))

v200 == <<"2", ".", "0", ".", "0">>
v100 == <<"1", ".", "0", ".", "0">>
v090 == <<"0", ".", "9", ".", "0">>
v3000 == <<"3", ".", "0", "0", ".", "0">>
d20240101 == <<"2", "0", "2", "4", "-", "0", "1", "-", "0", "1">>
d20230101 == <<"2", "0", "2", "3", "-", "0", "1", "-", "0", "1">>
d20240601 == <<"2", "0", "2", "4", "-", "0", "6", "-", "0", "1">>
d20241345 == <<"2", "0", "2", "4", "-", "1", "3", "-", "4", "5">>

Heading(v, d) == sHeadOpen \o v \o sHeadMid \o d

lnTitle == sTitle
lnTitleInText == <<"x", " ">> \o sTitle
lnUnreleased == sUnreleased
lnRelease200 == Heading(v200, d20240101)
lnRelease100 == Heading(v100, d20230101)
lnRelease090 == Heading(v090, d20240601)
lnReleaseNotSemver == Heading(v3000, d20240601)
lnReleaseBadDate == Heading(v100, d20241345)
lnUnreleasedDated == Heading(sUnreleasedWord, d20240101)
lnMalformed == sH2 \o <<" ">> \o v100
lnDeviating == sH2 \o <<" ", "x", " ">> \o sUnrelTag
lnAdded == sH3Space \o sAdded
lnSecurity == sH3Space \o sSecurity
lnEntry == <<"-", " ", "x">>
lnEntryHashes == <<"-", " ">> \o sH3Space \o <<"x">>
lnEmpty == <<>>

Preambles == { <<lnTitle, lnUnreleased>>, <<lnTitleInText, lnUnreleased>>,
               <<lnTitle>>, <<lnUnreleased>> }

BodyPool == { lnRelease200, lnRelease100, lnRelease090, lnReleaseNotSemver,
              lnReleaseBadDate,
              lnUnreleasedDated, lnMalformed, lnDeviating,
              lnAdded, lnSecurity, lnEntry, lnEntryHashes, lnEmpty }

Bodies == UNION {[1..n -> BodyPool] : n \in 0..MaxBody}

\* the texts a changelog file may hold
Documents == {Join(p \o b) : p \in Preambles, b \in Bodies}

----------------------------------------------------------------------------
(* main *)

Printed(line, version, errs) == [line |-> line, version |-> version, errors |-> errs]

Init ==
  /\ pc = "start"
  /\ changelog_file = None
  /\ allowed_sections = <<>>
  /\ changelog_content = <<>>
  /\ scan_result = "none"
  /\ changelog = <<>>
  /\ idx = 0
  /\ version_obj = [version |-> <<>>, date |-> <<>>, sections |-> <<>>]
  /\ errors = <<>>
  /\ out = <<>>
  /\ exit_status = -1

\* exit(1) after printing line
Exit1(line) ==
  /\ pc' = "exit"
  /\ exit_status' = 1
  /\ out' = Append(out, Printed(line, <<>>, <<>>))

\* an exception nobody catches: traceback, status 1
Uncaught ==
  /\ pc' = "exit"
  /\ exit_status' = 1
  /\ out' = out

\* argument parsing, file location and the allow-list
ParseArgs ==
  /\ pc = "start"
  /\ \E auto \in BOOLEAN, file \in {None, "CHANGELOG.md"}, walk \in FileWalks :
       LET located == IF auto THEN find_changelog_file(walk) ELSE file
       IN  IF located = None
           THEN /\ Exit1(IF auto THEN "no_file_found" ELSE "no_file_argument")
                /\ UNCHANGED <<changelog_file, allowed_sections>>
           ELSE /\ changelog_file' = located
                /\ allowed_sections' = AllowedSections
                /\ pc' = "open"
                /\ UNCHANGED <<out, exit_status>>
  /\ UNCHANGED <<changelog_content, scan_result, changelog, idx, version_obj, errors>>

\* open(changelog_file).read(); open raises when the file cannot be read
ReadFile ==
  /\ pc = "open"
  /\ \E readable \in BOOLEAN :
       IF readable
       THEN /\ \E doc \in Documents : changelog_content' = doc
            /\ pc' = "verify"
            /\ UNCHANGED <<out, exit_status>>
       ELSE /\ Uncaught
            /\ UNCHANGED changelog_content
  /\ UNCHANGED <<changelog_file, allowed_sections, scan_result, changelog, idx,
                 version_obj, errors>>

\* if not verify_changelog_format(changelog_content): ... exit(1)
VerifyFormat ==
  /\ pc = "verify"
  /\ scan_result' = verify_changelog_format(changelog_content)
  /\ IF scan_result' = "True"
     THEN /\ pc' = "parse"
          /\ UNCHANGED <<out, exit_status>>
     ELSE IF scan_result' = "False"
     THEN Exit1("format_invalid")
     ELSE Uncaught
  /\ UNCHANGED <<changelog_file, allowed_sections, changelog_content, changelog,
                 idx, version_obj, errors>>

\* changelog = parse_changelog(...); if not changelog: ... exit(1)
ParseChangelog ==
  /\ pc = "parse"
  /\ changelog' = parse_changelog(changelog_content, allowed_sections)
  /\ IF changelog' = <<>>
     THEN /\ Exit1("parsing_issue")
          /\ idx' = idx
     ELSE /\ pc' = "loop"
          /\ idx' = 1
          /\ UNCHANGED <<out, exit_status>>
  /\ UNCHANGED <<changelog_file, allowed_sections, changelog_content, scan_result,
                 version_obj, errors>>

\* variant: the error block is printed but the loop goes on
ReportNoExit(errs) ==
  /\ out' = Append(out, Printed(IF errs # <<>> THEN "errors" ELSE "valid",
                                changelog[idx].version, errs))
  /\ pc' = "loop"
  /\ exit_status' = exit_status
  /\ idx' = idx + 1

\* what one iteration does once errors is known
Report(errs) ==
  IF errs # <<>>
  THEN /\ out' = Append(out, Printed("errors", changelog[idx].version, errs))
       /\ pc' = "exit"
       /\ exit_status' = 1
       /\ idx' = idx
  ELSE /\ out' = Append(out, Printed("valid", changelog[idx].version, <<>>))
       /\ pc' = "loop"
       /\ exit_status' = exit_status
       /\ idx' = idx + 1

\* one iteration of the loop over changelog
ValidateVersion ==
  /\ pc = "loop"
  /\ idx <= Len(changelog)
  /\ version_obj' = changelog[idx]
  /\ errors' = verify_version(version_obj', allowed_sections)
  /\ Report(errors')
  /\ UNCHANGED <<changelog_file, allowed_sections, changelog_content, scan_result,
                 changelog>>

\* the loop is over: main returns and the interpreter exits with status 0
MainReturn ==
  /\ pc = "loop"
  /\ idx > Len(changelog)
  /\ pc' = "exit"
  /\ exit_status' = 0
  /\ UNCHANGED <<changelog_file, allowed_sections, changelog_content, scan_result,
                 changelog, idx, version_obj, errors, out>>

Next == ParseArgs \/ ReadFile \/ VerifyFormat \/ ParseChangelog
          \/ ValidateVersion \/ MainReturn

Spec == Init /\ [][Next]_vars

----------------------------------------------------------------------------
(* KACLValidator.verify_version called on its own *)

v123 == <<"1", ".", "2", ".", "3">>
v12 == <<"1", ".", "2">>
v0123 == <<"0", "1", ".", "2", ".", "3">>
v1203 == <<"1", ".", "2", ".", "0", "3">>
v123x == <<"1", ".", "2", ".", "3", "x">>
dShort == <<"2", "0", "2", "4", "-", "1", "-", "1">>
dTrailing == d20240101 \o <<"x">>

VersionTokens == {v123, v12, v0123, v1203, v123x, sUnreleasedWord, <<>>}
DateTokens == {d20240101, d20241345, dShort, dTrailing, <<>>}
Labels == {sAdded, sFixed, sSecurity}
SectionLists ==
  UNION {[1..n -> {[section |-> l, changes |-> <<lnEntry>>] : l \in Labels}]
           : n \in 0..MaxSections}
AllowLists == {AllowedSections, <<sAdded>>}

InitVerify ==
  /\ pc = "call"
  /\ changelog_file = None
  /\ allowed_sections \in AllowLists
  /\ changelog_content = <<>>
  /\ scan_result = "none"
  /\ changelog = <<>>
  /\ idx = 0
  /\ version_obj \in [version : VersionTokens, date : DateTokens,
                      sections : SectionLists]
  /\ errors = <<>>
  /\ out = <<>>
  /\ exit_status = -1

CallVerifyVersion ==
  /\ pc = "call"
  /\ errors' = verify_version(version_obj, allowed_sections)
  /\ pc' = "returned"
  /\ UNCHANGED <<changelog_file, allowed_sections, changelog_content, scan_result,
                 changelog, idx, version_obj, out, exit_status>>

NextVerify == CallVerifyVersion

SpecVerify == InitVerify /\ [][NextVerify]_vars

----------------------------------------------------------------------------
(* Properties *)

Lines == Split(changelog_content, <<NL>>)

\* verify_changelog_format has been called on changelog_content
Scanned == scan_result # "none"

\* parse_changelog has been called on changelog_content
Extracted == scan_result = "True" /\ pc # "parse"

\* C1: the run ends with status zero exactly when the file was located, the
\* scan returned true, the extraction was not empty and every extracted
\* release has no violation; in every other case the status is non-zero.
ExitZeroIffAllPassed ==
  pc = "exit" =>
    /\ exit_status \in {0, 1}
    /\ exit_status = 0 <=>
         /\ changelog_file # None
         /\ scan_result = "True"
         /\ changelog # <<>>
         /\ \A i \in 1..Len(changelog) :
              verify_version(changelog[i], AllowedSections) = <<>>

ExitZeroReached ==
  pc = "exit" /\ exit_status = 0 /\ Len(changelog) >= 2

\* the two dated releases of a text that passes the first three checks
Dated == FindDated(changelog_content, 1)

WellFormedTwoReleases ==
  /\ Scanned
  /\ Contains(changelog_content, sTitle)
  /\ Contains(changelog_content, sUnreleased)
  /\ \A l \in Range(Lines) : ~BadHeadingLine(l)
  /\ Len(Dated) = 2

BothCalendarDates == strptime(Dated[1].date).ok /\ strptime(Dated[2].date).ok

\* C2 as stated: with two releases A above B, the scan returns false whenever
\* A.version < B.version or A.date is later than B.date.
TwoReleasesDescendingOnBothAxes ==
  (/\ WellFormedTwoReleases
   /\ BothCalendarDates
   /\ \/ StrLess(Dated[1].version, Dated[2].version)
      \/ DateLater(strptime(Dated[1].date), strptime(Dated[2].date)))
  => scan_result = "False"

\* C2 amended: with two releases A above B, the scan returns false whenever
\* A.version <= B.version or B.date is later than A.date (and ends in the
\* ValueError instead when one of the dates is no calendar date); it never
\* returns true in these cases.
TwoReleasesVersionDownDateNotUp ==
  (/\ WellFormedTwoReleases
   /\ \/ ~StrLess(Dated[2].version, Dated[1].version)
      \/ DateLater(strptime(Dated[2].date), strptime(Dated[1].date)))
  => IF BothCalendarDates THEN scan_result = "False" ELSE scan_result = "ValueError"

LaterDateBelowRejected ==
  /\ WellFormedTwoReleases
  /\ BothCalendarDates
  /\ StrLess(Dated[2].version, Dated[1].version)
  /\ DateLater(strptime(Dated[2].date), strptime(Dated[1].date))
  /\ scan_result = "False"

\* C3: a text with no line equal to the title marker, or with no Unreleased
\* marker line, never passes the scan.
MissingMarkerFailsScan ==
  (/\ Scanned
   /\ \/ \A l \in Range(Lines) : l # sTitle
      \/ \A l \in Range(Lines) : ~StartsWith(l, sUnreleased))
  => scan_result # "True"

\* a line "### <label>" whose label is outside the allow-list
DisallowedSubHeadingLine(l) ==
  /\ StartsWith(l, sH3Space)
  /\ Strip(SubSeq(l, 5, Len(l))) \notin Range(AllowedSections)

\* C4: a sub-heading line with a label outside the allow-list, wherever it
\* stands, makes the extraction return the empty sequence.
DisallowedLabelEmptiesExtraction ==
  (Extracted /\ \E l \in Range(Lines) : DisallowedSubHeadingLine(l))
  => changelog = <<>>

\* C5: once validation has begun, every extracted release is reported exactly
\* once, in document order, also after a release with violations.
EveryReleaseReported ==
  (pc = "exit" /\ scan_result = "True" /\ changelog # <<>>)
  => /\ Len(out) = Len(changelog)
     /\ \A i \in 1..Len(out) :
          /\ out[i].version = changelog[i].version
          /\ out[i].errors = verify_version(changelog[i], AllowedSections)
          /\ out[i].line = IF out[i].errors = <<>> THEN "valid" ELSE "errors"

\* C6: validating a release whose version is the literal Unreleased adds no
\* version-grammar message.
UnreleasedExemptFromSemver ==
  version_obj.version = sUnreleasedWord
  => \A k \in 1..Len(errors) : errors[k].kind # "semver"

\* three numeric identifiers without leading zeros, separated by dots
NumericId(t) ==
  /\ t # <<>>
  /\ \A k \in 1..Len(t) : IsDigit(t[k])
  /\ Len(t) > 1 => t[1] # "0"

SemverCore(t) ==
  \E i, j \in 1..Len(t) :
     /\ i < j
     /\ t[i] = "." /\ t[j] = "."
     /\ NumericId(SubSeq(t, 1, i - 1))
     /\ NumericId(SubSeq(t, i + 1, j - 1))
     /\ NumericId(SubSeq(t, j + 1, Len(t)))

HasSemverPrefix(v) == \E n \in 1..Len(v) : SemverCore(SubSeq(v, 1, n))

FirstTenDateShaped(d) ==
  /\ Len(d) >= 10
  /\ \A k \in 1..10 : IF k \in {5, 8} THEN d[k] = "-" ELSE IsDigit(d[k])

SomeLabelOutside(sections, allowed) ==
  \E k \in 1..Len(sections) : \A a \in 1..Len(allowed) : sections[k].section # allowed[a]

Only(cond, kind) ==
  IF cond THEN <<Message(kind, version_obj, allowed_sections)>> ELSE <<>>

\* C7: the list verify_version returns holds the version message iff the
\* version has no semantic-version prefix, the date message iff the date is
\* empty or its first ten characters are not dddd-dd-dd, the section message
\* iff a label is outside the allow-list, each independently, in that order,
\* and never a link message.
VerifyVersionReportsEachCheck ==
  pc = "returned" =>
    errors = Only(~HasSemverPrefix(version_obj.version), "semver")
             \o Only(version_obj.date = <<>> \/ ~FirstTenDateShaped(version_obj.date), "date")
             \o Only(SomeLabelOutside(version_obj.sections, allowed_sections), "section")

AllThreeChecksFail ==
  /\ pc = "returned"
  /\ ~HasSemverPrefix(version_obj.version)
  /\ ~FirstTenDateShaped(version_obj.date)
  /\ SomeLabelOutside(version_obj.sections, allowed_sections)
  /\ Len(errors) = 3

\* C8: the scan always ends by returning true or false, never in an exception.
ScanNeverRaises == scan_result # "ValueError"

\* "## [<version>] - <YYYY-MM-DD>" and nothing else on the line
ExactHeadingShape(l) == MatchDatedAt(l, 1).end = Len(l) + 1

DeviatingHeadingLine(l) ==
  /\ StartsWith(l, sH2)
  /\ ~StartsWith(l, sUnreleased)
  /\ ~StartsWith(l, sH3)
  /\ ~ExactHeadingShape(l)

\* C9: with both markers present, a line that starts with ##, is neither the
\* Unreleased marker line nor a ### sub-heading and has not the exact heading
\* shape keeps the scan from succeeding.
NoDeviatingHeadingSkipped ==
  (/\ Scanned
   /\ \E l \in Range(Lines) : l = sTitle
   /\ \E l \in Range(Lines) : l = sUnreleased
   /\ \E l \in Range(Lines) : DeviatingHeadingLine(l))
  => scan_result # "True"

\* the text holds "### <label>" somewhere, with a label outside the allow-list
DisallowedLabelInText ==
  \E l \in Range(Lines) : \E i \in 1..Len(l) :
     /\ StartsWithAt(l, i, sH3Space)
     /\ Strip(SubSeq(l, i + 4, Len(l))) \notin Range(AllowedSections)

\* C10: after a successful scan the extraction returns at least two releases
\* unless the text holds a sub-heading with a label outside the allow-list, so
\* the parsing abort is never due to zero releases; and every extracted release
\* carries allowed labels only.
ParseAbortOnlyForLabel ==
  Extracted =>
    /\ Len(changelog) >= 2 \/ DisallowedLabelInText
    /\ \A i \in 1..Len(changelog) : \A k \in 1..Len(changelog[i].sections) :
         changelog[i].sections[k].section \in Range(AllowedSections)

ParseAbortReached ==
  /\ Extracted
  /\ pc = "exit"
  /\ changelog = <<>>
  /\ out # <<>>
  /\ out[Len(out)].line = "parsing_issue"
  /\ DisallowedLabelInText

====
